---------------------------- MODULE Spec2Model ----------------------------
(***************************************************************************)
(* Catalog store of the sales assistant: tools/product_tools.py.           *)
(*                                                                         *)
(* The durable catalog is one CSV file at PRODUCTS_CSV.  Every operation   *)
(* loads the whole file, works on its own DataFrame and, for checkout,     *)
(* writes the whole DataFrame to a temporary file and renames it over the  *)
(* catalog path.  Clients are callers of the four operations; they may run *)
(* concurrently, and a client may die while it is saving.                  *)
(*                                                                         *)
(* Strings are sequences of one-character strings, so that strip(),        *)
(* upper() and lower() are computed and not assumed.  Prices are in        *)
(* thousandths of a dollar, totals in cents, ratings in tenths.  An        *)
(* inventory_count cell of the CSV file is held in tenths of a unit (70 is *)
(* the text "7", 75 the text "7.5"); the DataFrame column inventory_count  *)
(* holds integers.                                                         *)
(***************************************************************************)
EXTENDS Integers, Sequences, FiniteSets, TLC

\* ------------------------------------------------------------------ bounds

\* Calls each client may make in the concurrent specification.
MaxCalls == 1

\* Calls the single caller makes in the sequential specification.
MaxSeqCalls == 3

\* Calls the single caller makes in the specification of the wide catalogs.
MaxWideCalls == 1

Clients == {"c1", "c2"}

\* ----------------------------------------------------------------- strings

UpperChar(c) ==
    CASE c = "p" -> "P"
      [] c = "z" -> "Z"
      [] c = "l" -> "L"
      [] c = "a" -> "A"
      [] c = "c" -> "C"
      [] c = "n" -> "N"
      [] OTHER -> c

LowerChar(c) ==
    CASE c = "P" -> "p"
      [] c = "Z" -> "z"
      [] c = "L" -> "l"
      [] c = "A" -> "a"
      [] c = "C" -> "c"
      [] c = "N" -> "n"
      [] OTHER -> c

Upper(s) == [k \in 1..Len(s) |-> UpperChar(s[k])]

Lower(s) == [k \in 1..Len(s) |-> LowerChar(s[k])]

RECURSIVE LStrip(_)
LStrip(s) == IF s # <<>> /\ Head(s) = " " THEN LStrip(Tail(s)) ELSE s

RECURSIVE RStrip(_)
RStrip(s) ==
    IF s # <<>> /\ s[Len(s)] = " " THEN RStrip(SubSeq(s, 1, Len(s) - 1)) ELSE s

Strip(s) == RStrip(LStrip(s))

\* -------------------------------------------------------- files and frames

RequiredCols ==
    {"product_id", "product_name", "product_description", "type", "price",
     "rating", "inventory_count"}

\* A cell of a numeric column as the CSV text holds it.
Cell(n) == [numeric |-> TRUE, v |-> n]

\* The catalog path names no file.
NoFile == [exists |-> FALSE, columns |-> {}, rows |-> <<>>]

\* A file just created, nothing written to it yet.
EmptyFile == [exists |-> TRUE, columns |-> {}, rows |-> <<>>]

NoDf == [columns |-> {}, rows |-> <<>>]

\* int() of a value held in tenths: truncation toward zero.
AsInt(tenths) == IF tenths >= 0 THEN tenths \div 10 ELSE -((-tenths) \div 10)

\* read_csv and astype(str) of a text cell: an empty cell is read as NaN and
\* becomes the text "nan".
AsStr(s) == IF s = <<>> THEN <<"n", "a", "n">> ELSE s

LoadRow(r) ==
    [product_id |-> AsStr(r.product_id),
     product_name |-> AsStr(r.product_name),
     product_description |-> AsStr(r.product_description),
     type |-> AsStr(r.type),
     price |-> r.price.v,
     rating |-> r.rating.v,
     inventory_count |-> AsInt(r.inventory_count.v)]

\* _load_products_df: the DataFrame, or the exception read_csv or the casts raise.
LoadProductsDf(file) ==
    IF ~file.exists
    THEN [raised |-> "FileNotFoundError", df |-> NoDf]
    ELSE IF file.columns = {}
    THEN [raised |-> "EmptyDataError", df |-> NoDf]
    ELSE IF ~(RequiredCols \subseteq file.columns)
    THEN [raised |-> "ValueError", df |-> NoDf]
    ELSE IF \E k \in 1..Len(file.rows) :
                \/ ~file.rows[k].price.numeric
                \/ ~file.rows[k].rating.numeric
                \/ ~file.rows[k].inventory_count.numeric
    THEN [raised |-> "ValueError", df |-> NoDf]
    ELSE [raised |-> "",
          df |-> [columns |-> file.columns,
                  rows |-> [k \in 1..Len(file.rows) |-> LoadRow(file.rows[k])]]]

SaveRow(r) ==
    [product_id |-> r.product_id,
     product_name |-> r.product_name,
     product_description |-> r.product_description,
     type |-> r.type,
     price |-> Cell(r.price),
     rating |-> Cell(r.rating),
     inventory_count |-> Cell(10 * r.inventory_count)]

\* A to_csv that writes the index as a first, unnamed column.
ToCsvWithIndex(df) ==
    [exists |-> TRUE,
     columns |-> df.columns \cup {"Unnamed: 0"},
     rows |-> [k \in 1..Len(df.rows) |-> SaveRow(df.rows[k])]]

\* df.to_csv(..., index=False): the whole text the DataFrame is written as.
ToCsv(df) ==
    [exists |-> TRUE,
     columns |-> df.columns,
     rows |-> [k \in 1..Len(df.rows) |-> SaveRow(df.rows[k])]]

\* One more piece of ToCsv(df) appended to a file: the header line first,
\* then the rows in order.
WriteNext(file, df) ==
    IF file.columns = {}
    THEN [exists |-> TRUE, columns |-> ToCsv(df).columns, rows |-> <<>>]
    ELSE [file EXCEPT !.rows = Append(@, ToCsv(df).rows[Len(@) + 1])]

\* The temporary file is taken for complete once its header is written.
HeaderWritten(file, df) == file.columns # {}

\* The with block of _save_products_df has written all of ToCsv(df) and
\* closed the file.
FullyWritten(file, df) == file = ToCsv(df)

\* ------------------------------------------------------------ call results

\* What a call of an internal function ends with: a returned dict or a raised
\* exception.
NoOutcome == [tag |-> "none", exc |-> "", value |-> [success |-> FALSE]]

Returned(v) == [tag |-> "return", exc |-> "", value |-> v]

Raised(e) == [tag |-> "raise", exc |-> e, value |-> [success |-> FALSE]]

NoCall == [op |-> "none"]

\* ---------------------------------------------------------------- checkout

\* A mask that compares with the id as passed, neither trimmed nor upper-cased.
IdMaskAsPassed(df, product_id) ==
    {k \in 1..Len(df.rows) : Upper(df.rows[k].product_id) = product_id}

\* df["product_id"].str.upper() == str(product_id).strip().upper()
IdMask(df, product_id) ==
    {k \in 1..Len(df.rows) : Upper(df.rows[k].product_id) = Upper(Strip(product_id))}

\* idx[0] / matches.iloc[0]: the first row of the mask.
FirstOf(idx) == CHOOSE k \in idx : \A j \in idx : k <= j

\* A quantity check that lets 0 through.
NegativeQuantity(quantity) == quantity < 0

InvalidQuantity(quantity) == quantity <= 0

\* A checkout without the stock check.
NoStockCheck(available, quantity) == FALSE

InsufficientStock(available, quantity) == available < quantity

\* An update of every row whose id matches that of row i.
SetInventoryOfAll(df, i, count) ==
    [df EXCEPT !.rows =
        [k \in 1..Len(df.rows) |->
            IF Upper(df.rows[k].product_id) = Upper(df.rows[i].product_id)
            THEN [df.rows[k] EXCEPT !.inventory_count = count]
            ELSE df.rows[k]]]

\* df.at[i, "inventory_count"] = available - quantity
SetInventory(df, i, count) ==
    [df EXCEPT !.rows[i].inventory_count = count]

\* A total cut off after the cents.
TotalPriceTruncated(price, quantity) == (price * quantity) \div 10

\* round(float(price) * int(quantity), 2), price in thousandths, result in
\* cents; the catalog's prices put no product on a rounding tie.
TotalPrice(price, quantity) == (price * quantity + 5) \div 10

\* The failure dicts of checkout_internal.
InvalidQuantityError ==
    [success |-> FALSE, error |-> "invalid_quantity", message |-> "Quantity must be >= 1"]

NotFound(product_id) ==
    [success |-> FALSE, error |-> "not_found", product_id |-> product_id]

\* An insufficient_inventory dict that reports nothing left.
NothingAvailable(available) ==
    [success |-> FALSE, error |-> "insufficient_inventory", available |-> 0]

InsufficientInventory(available) ==
    [success |-> FALSE, error |-> "insufficient_inventory", available |-> available]

\* checkout_internal from its load on: the quantity is known to be positive.
CheckoutLoaded(file, product_id, quantity) ==
    LET ld == LoadProductsDf(file)
        idx == IdMask(ld.df, product_id)
    IN  IF ld.raised # ""
        THEN [pc |-> "done", df |-> NoDf, i |-> 0, outcome |-> Raised(ld.raised)]
        ELSE IF idx = {}
        THEN [pc |-> "done", df |-> NoDf, i |-> 0,
              outcome |-> Returned(NotFound(product_id))]
        ELSE LET i == FirstOf(idx)
                 available == ld.df.rows[i].inventory_count
             IN  IF InsufficientStock(available, quantity)
                 THEN [pc |-> "done", df |-> NoDf, i |-> 0,
                       outcome |-> Returned(InsufficientInventory(available))]
                 ELSE [pc |-> "save",
                       df |-> SetInventory(ld.df, i, available - quantity),
                       i |-> i,
                       outcome |-> NoOutcome]

\* A checkout_internal that loads before it looks at the quantity.
CheckoutInternalLoadFirst(file, product_id, quantity) ==
    IF LoadProductsDf(file).raised # "" \/ ~InvalidQuantity(quantity)
    THEN CheckoutLoaded(file, product_id, quantity)
    ELSE [pc |-> "done", df |-> NoDf, i |-> 0, outcome |-> Returned(InvalidQuantityError)]

\* checkout_internal up to the call of _save_products_df: the dict it returns
\* or the exception it raises, or the updated frame it goes on to save.
CheckoutInternal(file, product_id, quantity) ==
    IF InvalidQuantity(quantity)
    THEN [pc |-> "done", df |-> NoDf, i |-> 0, outcome |-> Returned(InvalidQuantityError)]
    ELSE CheckoutLoaded(file, product_id, quantity)

\* A df.to_csv that writes to the catalog path itself.
SaveStepInPlace(path_file, tmp_file, df) ==
    [path |-> WriteNext(tmp_file, df), tmp |-> WriteNext(tmp_file, df)]

\* One write of df.to_csv(tf.name): it goes to the temporary file and leaves
\* the file at the catalog path alone.
SaveStep(path_file, tmp_file, df) ==
    [path |-> path_file, tmp |-> WriteNext(tmp_file, df)]

\* An os.replace that leaves the catalog path as it was.
KeepFile(path_file, tmp_file) == path_file

\* os.replace(tmpname, csv_path): the catalog path now names the temporary file.
ReplaceFile(path_file, tmp_file) == tmp_file

\* The order dict checkout_internal builds after the save.
Order(df, i, quantity, token) ==
    [order_id |-> <<"ORD-", token>>,
     product_id |-> df.rows[i].product_id,
     product_name |-> df.rows[i].product_name,
     qty |-> quantity,
     unit_price |-> df.rows[i].price,
     total_price |-> TotalPrice(df.rows[i].price, quantity)]

\* ----------------------------------------------------------------- queries

\* An Optional argument: None, or a value.
None == [none |-> TRUE, v |-> 0]

\* None where a string is expected.
NoneStr == [none |-> TRUE, v |-> <<>>]

Some(x) == [none |-> FALSE, v |-> x]

\* Series.str.contains(q): re.search of the pattern q in s.  Of the regular
\* expression syntax the model knows "." (any character) and literals.
Contains(s, q) ==
    \E start \in 1..(Len(s) + 1) :
        \A k \in 1..Len(q) :
            /\ start + k - 1 <= Len(s)
            /\ q[k] = "." \/ q[k] = s[start + k - 1]

\* re.compile(q) raises: an opening parenthesis that is never closed.
BadPattern(q) ==
    \E k \in 1..Len(q) : q[k] = "(" /\ \A j \in (k + 1)..Len(q) : q[j] # ")"

\* The rows of df at the indices of idx, in the order of the sequence order.
RowsAt(df, order) == [n \in 1..Len(order) |-> df.rows[order[n]]]

\* The indices of idx in increasing order.
RECURSIVE Ascending(_)
Ascending(idx) ==
    IF idx = {} THEN <<>>
    ELSE LET k == FirstOf(idx) IN <<k>> \o Ascending(idx \ {k})

\* search_product_by_name_internal
SearchProductByNameInternal(file, product_name) ==
    LET ld == LoadProductsDf(file)
        q == Lower(Strip(product_name))
        mask == {k \in 1..Len(ld.df.rows) :
                    \/ Contains(Lower(ld.df.rows[k].product_name), q)
                    \/ Contains(Lower(ld.df.rows[k].product_description), q)}
        results == RowsAt(ld.df, Ascending(mask))
    IN  IF ld.raised # "" THEN Raised(ld.raised)
        ELSE IF q = <<>>
        THEN Returned([success |-> FALSE, error |-> "Empty search query."])
        ELSE IF BadPattern(q) THEN Raised("re.error")
        ELSE Returned([success |-> TRUE, count |-> Len(results), matches |-> results])

\* A sort by rating ascending.
SortsBeforeAscending(df, j, k) ==
    \/ df.rows[j].rating < df.rows[k].rating
    \/ /\ df.rows[j].rating = df.rows[k].rating
       /\ df.rows[j].price < df.rows[k].price
    \/ /\ df.rows[j].rating = df.rows[k].rating
       /\ df.rows[j].price = df.rows[k].price
       /\ j < k

\* Row j sorts before row k: rating descending, then price ascending, rows
\* that tie in both keep the order of the frame.
SortsBefore(df, j, k) ==
    \/ df.rows[j].rating > df.rows[k].rating
    \/ /\ df.rows[j].rating = df.rows[k].rating
       /\ df.rows[j].price < df.rows[k].price
    \/ /\ df.rows[j].rating = df.rows[k].rating
       /\ df.rows[j].price = df.rows[k].price
       /\ j < k

\* filtered.sort_values(by=["rating", "price"], ascending=[False, True]), as
\* the sequence of row indices.
SortValues(df, idx) ==
    [n \in 1..Cardinality(idx) |->
        CHOOSE k \in idx : Cardinality({j \in idx : SortsBefore(df, j, k)}) = n - 1]

\* DataFrame.head(n): the first n rows, and for a negative n all rows but
\* the last -n.
Head_(order, n) ==
    IF n >= 0
    THEN SubSeq(order, 1, IF n < Len(order) THEN n ELSE Len(order))
    ELSE SubSeq(order, 1, IF Len(order) + n > 0 THEN Len(order) + n ELSE 0)

\* filter_products_internal
FilterProductsInternal(file, product_type, min_rating, min_price, max_price, top_n) ==
    LET ld == LoadProductsDf(file)
        df == ld.df
        all == 1..Len(df.rows)
        byType ==
            IF ~product_type.none /\ product_type.v # <<>>
            THEN {k \in all : Lower(df.rows[k].type) = Lower(Strip(product_type.v))}
            ELSE all
        byRating ==
            IF ~min_rating.none
            THEN {k \in byType : df.rows[k].rating >= min_rating.v}
            ELSE byType
        byMinPrice ==
            IF ~min_price.none
            THEN {k \in byRating : df.rows[k].price >= min_price.v}
            ELSE byRating
        filtered ==
            IF ~max_price.none
            THEN {k \in byMinPrice : df.rows[k].price <= max_price.v}
            ELSE byMinPrice
        recs == RowsAt(df, Head_(SortValues(df, filtered), top_n))
    IN  IF ld.raised # "" THEN Raised(ld.raised)
        ELSE IF filtered = {}
        THEN Returned([success |-> TRUE, count |-> 0, recommendations |-> <<>>])
        ELSE Returned([success |-> TRUE, count |-> Len(recs), recommendations |-> recs])

\* An in_stock that is true of a product with nothing left.
InStockAtZero(count) == count >= 0

\* bool(int(row["inventory_count"]) > 0)
InStock(count) == count > 0

\* check_inventory_internal
CheckInventoryInternal(file, product_id) ==
    LET ld == LoadProductsDf(file)
        mask == IdMask(ld.df, product_id)
        row == ld.df.rows[FirstOf(mask)]
    IN  IF ld.raised # "" THEN Raised(ld.raised)
        ELSE IF mask = {}
        THEN Returned(NotFound(product_id))
        ELSE Returned([success |-> TRUE,
                       product_id |-> row.product_id,
                       product_name |-> row.product_name,
                       price |-> row.price,
                       rating |-> row.rating,
                       inventory_count |-> row.inventory_count,
                       in_stock |-> InStock(row.inventory_count)])

\* ------------------------------------------------------------------ facade

\* What a tool call ends with: the text it returns, or the exception that
\* escapes it.
Escaped(e) == [text |-> "", escaped |-> e]

\* The keys _format_product_row reads of a row dict.
RowKeys == {"product_id", "product_name", "price", "rating", "type"}

\* _format_product_row
FormatProductRow(r) ==
    [product_id |-> r.product_id, product_name |-> r.product_name,
     price |-> r.price, rating |-> r.rating, type |-> r.type]

\* _dict_to_text_search
DictToTextSearch(result) ==
    IF ~result.success
    THEN [text |-> "Error", escaped |-> "", error |-> result.error]
    ELSE IF ~({"count", "matches"} \subseteq DOMAIN result)
    THEN Escaped("KeyError")
    ELSE IF result.count = 0
    THEN [text |-> "No products found", escaped |-> ""]
    ELSE IF \E n \in 1..Len(result.matches) : ~(RowKeys \subseteq DOMAIN result.matches[n])
    THEN Escaped("KeyError")
    ELSE [text |-> "Products found", escaped |-> "", count |-> result.count,
          lines |-> [n \in 1..Len(result.matches) |-> FormatProductRow(result.matches[n])]]

\* _dict_to_text_filter
DictToTextFilter(result) ==
    IF ~result.success
    THEN [text |-> "Error", escaped |-> "", error |-> result.error]
    ELSE IF ~({"count", "recommendations"} \subseteq DOMAIN result)
    THEN Escaped("KeyError")
    ELSE IF result.count = 0
    THEN [text |-> "No products match the given filters", escaped |-> ""]
    ELSE IF \E n \in 1..Len(result.recommendations) :
                ~(RowKeys \subseteq DOMAIN result.recommendations[n])
    THEN Escaped("KeyError")
    ELSE [text |-> "Top recommendations", escaped |-> "", count |-> result.count,
          lines |-> [n \in 1..Len(result.recommendations) |->
                        FormatProductRow(result.recommendations[n])]]

\* _dict_to_text_inventory
DictToTextInventory(result) ==
    IF ~result.success
    THEN [text |-> "Product not found", escaped |-> "",
          product_id |-> IF "product_id" \in DOMAIN result THEN result.product_id ELSE <<>>]
    ELSE IF ~({"product_name", "in_stock", "inventory_count", "price", "rating"}
                \subseteq DOMAIN result)
    THEN Escaped("KeyError")
    ELSE [text |-> IF result.in_stock THEN "in stock" ELSE "out of stock",
          escaped |-> "",
          product_name |-> result.product_name,
          inventory_count |-> result.inventory_count,
          price |-> result.price,
          rating |-> result.rating]

\* _dict_to_text_checkout
DictToTextCheckout(result) ==
    IF ~result.success
    THEN IF result.error = "insufficient_inventory"
         THEN [text |-> "Checkout failed: only units available", escaped |-> "",
               available |-> result.available]
         ELSE IF result.error = "not_found"
         THEN [text |-> "Checkout failed: product not found", escaped |-> "",
               product_id |-> result.product_id]
         ELSE [text |-> "Checkout failed", escaped |-> "", error |-> result.error]
    ELSE IF "order" \notin DOMAIN result
    THEN Escaped("KeyError")
    ELSE [text |-> "Checkout successful",
          escaped |-> "",
          qty |-> result.order.qty,
          product_name |-> result.order.product_name,
          order_id |-> result.order.order_id,
          total_price |-> result.order.total_price]

\* The except clauses the four tools share: FileNotFoundError, then Exception.
Caught(o, text) ==
    IF o.exc = "FileNotFoundError"
    THEN [text |-> "Product database not found", escaped |-> ""]
    ELSE [text |-> text, escaped |-> "", exc |-> o.exc]

\* A search tool whose only except clause is the one for FileNotFoundError.
SearchProductByNameUncaught(o) ==
    IF o.tag = "raise"
    THEN IF o.exc = "FileNotFoundError" THEN Caught(o, "") ELSE Escaped(o.exc)
    ELSE DictToTextSearch(o.value)

\* search_product_by_name: what the tool answers, from what
\* search_product_by_name_internal returned or raised.
SearchProductByName(o) ==
    IF o.tag = "raise" THEN Caught(o, "Error searching product")
    ELSE DictToTextSearch(o.value)

\* filter_products
FilterProducts(o) ==
    IF o.tag = "raise" THEN Caught(o, "Error filtering products")
    ELSE DictToTextFilter(o.value)

\* check_inventory
CheckInventoryTool(o) ==
    IF o.tag = "raise" THEN Caught(o, "Error checking inventory")
    ELSE DictToTextInventory(o.value)

\* checkout_product: what the tool answers, from what checkout_internal
\* returned or raised.
CheckoutProduct(o) ==
    IF o.tag = "raise" THEN Caught(o, "Error during checkout")
    ELSE DictToTextCheckout(o.value)

\* ------------------------------------------------------------------ inputs

P1 == <<"P", "1">>

ProductIds == {P1, <<" ", "p", "1", " ">>, <<"P", "2">>, <<"Z", "Z">>}

Quantities == {-1, 0, 3, 5, 8}

Keywords ==
    {<<>>, <<" ">>, <<" ", "L", "A">>, <<"a", ".">>, <<"(">>, <<"z", "z">>}

NUM_RECS_DEFAULT == 5

FilterArgs ==
    [product_type : {NoneStr, Some(<<>>), Some(<<" ", "P", "C">>)},
     min_rating : {None, Some(45)},
     min_price : {None, Some(20000)},
     max_price : {None, Some(50000)},
     top_n : {NUM_RECS_DEFAULT, 1}]

\* The inputs of the concurrent specification: one id of each product and an
\* unknown one, one quantity of each kind, one query of each operation.
RaceProductIds == {<<" ", "p", "1", " ">>, <<"P", "2">>, <<"Z", "Z">>}

RaceQuantities == {0, 3, 5}

RaceKeywords == {<<" ", "L", "A">>}

RaceFilterArgs ==
    {[product_type |-> NoneStr, min_rating |-> Some(45), min_price |-> None,
      max_price |-> None, top_n |-> NUM_RECS_DEFAULT]}

\* The values os.urandom(4).hex() is drawn from.
Tokens == {"00000000", "00000001"}

Product1(count) ==
    [product_id |-> P1,
     product_name |-> <<"L", "a", "p">>,
     product_description |-> <<"p", "c">>,
     type |-> <<"P", "c">>,
     price |-> Cell(100000),
     rating |-> Cell(45),
     inventory_count |-> Cell(10 * count)]

Product2(count) ==
    [product_id |-> <<"p", "2">>,
     product_name |-> <<"C", "a", "p">>,
     product_description |-> <<"l", "a">>,
     type |-> <<"c", "a", "p">>,
     price |-> Cell(19999),
     rating |-> Cell(45),
     inventory_count |-> Cell(10 * count)]

\* The catalogs a run may start from: every inventory_count an integer >= 0.
InitialCatalogs ==
    {[exists |-> TRUE, columns |-> RequiredCols, rows |-> <<Product1(a), Product2(b)>>] :
        a \in {7, 10}, b \in {0, 4}}

\* The catalog the concurrent specification starts from.
RaceCatalogs ==
    {[exists |-> TRUE, columns |-> RequiredCols, rows |-> <<Product1(7), Product2(4)>>]}

\* The arguments of filter the wide specification draws from: every
\* combination of present and absent predicates, and a top_n below, at and
\* above the number of rows that can match.
WideFilterArgs ==
    [product_type : {NoneStr, Some(<<>>), Some(<<" ", "P", "C">>)},
     min_rating : {None, Some(45)},
     min_price : {None, Some(20000)},
     max_price : {None, Some(50000)},
     top_n : {-1, 0, 1, 2, NUM_RECS_DEFAULT}]

Product3(count) ==
    [product_id |-> <<"P", "3">>,
     product_name |-> <<"p", "a", "l">>,
     product_description |-> <<"a", "p">>,
     type |-> <<"p", "c">>,
     price |-> Cell(30000),
     rating |-> Cell(48),
     inventory_count |-> Cell(10 * count)]

Product4(count) ==
    [product_id |-> <<"P", "4">>,
     product_name |-> <<"c", "a", "l">>,
     product_description |-> <<"l", "c">>,
     type |-> <<"P", "C">>,
     price |-> Cell(20000),
     rating |-> Cell(45),
     inventory_count |-> Cell(10 * count)]

\* A cell of a numeric column whose text is no number.
NotANumber == [numeric |-> FALSE, v |-> 0]

\* The rows of the files the wide specification starts from: four products
\* that rank differently, two records whose ids differ in case only, and
\* inventory_count cells "7.5", "-1", "-0.5" and "x", an empty description,
\* a file of the header line only.
WideRows ==
    {<<Product1(7), Product2(4)>>,
     <<Product1(7), Product2(4), Product3(2), Product4(0)>>,
     <<Product1(7), [Product2(4) EXCEPT !.product_id = <<"p", "1">>], Product3(2)>>,
     <<[Product1(7) EXCEPT !.inventory_count = Cell(75)], Product2(4)>>,
     <<Product1(7), [Product2(4) EXCEPT !.inventory_count = Cell(-10)]>>,
     <<[Product1(7) EXCEPT !.inventory_count = Cell(-5)], Product2(4)>>,
     <<Product1(7), [Product2(4) EXCEPT !.inventory_count = NotANumber]>>,
     <<[Product1(7) EXCEPT !.product_description = <<>>], Product2(4)>>,
     <<>>}

\* The files the wide specification starts from: the rows above under the
\* required header, a file with one more column, one with a column missing,
\* and a file of zero bytes.
WideCatalogs ==
    {[exists |-> TRUE, columns |-> RequiredCols, rows |-> rows] : rows \in WideRows}
        \cup {[exists |-> TRUE, columns |-> RequiredCols \cup {"brand"},
                rows |-> <<Product1(7), Product2(4)>>],
               [exists |-> TRUE, columns |-> RequiredCols \ {"rating"},
                rows |-> <<Product1(7), Product2(4)>>],
               EmptyFile}

\* ------------------------------------------------------------------- state

VARIABLES
    products_csv,   \* the file at PRODUCTS_CSV
    tmpfile,        \* client -> its NamedTemporaryFile
    pc,             \* client -> idle, save, replaced, done, crashed
    call,           \* client -> the operation it called, with its arguments
    frame,          \* client -> df and row index i of its checkout_internal
    outcome,        \* client -> what its last call returned or raised
    budget,         \* client -> calls it may still make
    initial,        \* the catalog file the run started from
    raced,          \* some call began while another client's temporary file
                    \* was partly written
    before,         \* the file at PRODUCTS_CSV when the latest call began
    sold            \* row -> total quantity of the checkouts that returned success

vars ==
    <<products_csv, tmpfile, pc, call, frame, outcome, budget, initial, raced,
      before, sold>>

NoFrame == [df |-> NoDf, i |-> 0]

PartlyWritten(p) ==
    /\ pc[p] \in {"save", "crashed"}
    /\ tmpfile[p].exists
    /\ ~FullyWritten(tmpfile[p], frame[p].df)

InitWith(b, catalogs) ==
    /\ products_csv \in catalogs \cup {NoFile}
    /\ initial = products_csv
    /\ tmpfile = [p \in Clients |-> NoFile]
    /\ pc = [p \in Clients |-> "idle"]
    /\ call = [p \in Clients |-> NoCall]
    /\ frame = [p \in Clients |-> NoFrame]
    /\ outcome = [p \in Clients |-> NoOutcome]
    /\ budget = b
    /\ raced = FALSE
    /\ before = products_csv
    /\ sold = [k \in 1..Len(products_csv.rows) |-> 0]

Init == InitWith([p \in Clients |-> MaxCalls], RaceCatalogs)

\* One caller, one call at a time.
SeqInit == InitWith([p \in Clients |-> IF p = "c1" THEN MaxSeqCalls ELSE 0], InitialCatalogs)

\* One caller, one call at a time, any readable or unreadable catalog file.
WideInit == InitWith([p \in Clients |-> IF p = "c1" THEN MaxWideCalls ELSE 0], WideCatalogs)

CanCall(p) == pc[p] \in {"idle", "done"} /\ budget[p] > 0

\* The bookkeeping of a call that begins.
Begin(p, c) ==
    /\ CanCall(p)
    /\ budget' = [budget EXCEPT ![p] = @ - 1]
    /\ call' = [call EXCEPT ![p] = c]
    /\ raced' = (raced \/ \E q \in Clients \ {p} : PartlyWritten(q))
    /\ before' = products_csv

\* checkout_internal(product_id, quantity), up to the creation of the
\* temporary file.
Checkout(p, product_id, quantity) ==
    LET r == CheckoutInternal(products_csv, product_id, quantity)
    IN  /\ Begin(p, [op |-> "checkout", product_id |-> product_id,
                     quantity |-> quantity])
        /\ pc' = [pc EXCEPT ![p] = r.pc]
        /\ frame' = [frame EXCEPT ![p] = [df |-> r.df, i |-> r.i]]
        /\ outcome' = [outcome EXCEPT ![p] = r.outcome]
        /\ tmpfile' = [tmpfile EXCEPT ![p] = IF r.pc = "save" THEN EmptyFile ELSE NoFile]
        /\ UNCHANGED <<products_csv, initial, sold>>

\* df.to_csv writes the next piece of the frame.
WriteTmp(p) ==
    /\ pc[p] = "save"
    /\ ~FullyWritten(tmpfile[p], frame[p].df)
    /\ LET w == SaveStep(products_csv, tmpfile[p], frame[p].df)
       IN  /\ products_csv' = w.path
           /\ tmpfile' = [tmpfile EXCEPT ![p] = w.tmp]
    /\ UNCHANGED <<pc, call, frame, outcome, budget, initial, raced, before, sold>>

\* A write to the temporary file raises (disk full, I/O error).
WriteFail(p) ==
    /\ pc[p] = "save"
    /\ ~FullyWritten(tmpfile[p], frame[p].df)
    /\ pc' = [pc EXCEPT ![p] = "done"]
    /\ outcome' = [outcome EXCEPT ![p] = Raised("OSError")]
    /\ frame' = [frame EXCEPT ![p] = NoFrame]
    /\ UNCHANGED <<products_csv, tmpfile, call, budget, initial, raced, before, sold>>

\* os.replace succeeds.
Replace(p) ==
    /\ pc[p] = "save"
    /\ FullyWritten(tmpfile[p], frame[p].df)
    /\ products_csv' = ReplaceFile(products_csv, tmpfile[p])
    /\ tmpfile' = [tmpfile EXCEPT ![p] = NoFile]
    /\ pc' = [pc EXCEPT ![p] = "replaced"]
    /\ UNCHANGED <<call, frame, outcome, budget, initial, raced, before, sold>>

\* os.replace raises.
ReplaceFail(p) ==
    /\ pc[p] = "save"
    /\ FullyWritten(tmpfile[p], frame[p].df)
    /\ pc' = [pc EXCEPT ![p] = "done"]
    /\ outcome' = [outcome EXCEPT ![p] = Raised("OSError")]
    /\ frame' = [frame EXCEPT ![p] = NoFrame]
    /\ UNCHANGED <<products_csv, tmpfile, call, budget, initial, raced, before, sold>>

\* checkout_internal builds the order and returns success.
ReturnOrder(p, token) ==
    /\ pc[p] = "replaced"
    /\ call[p].op = "checkout"
    /\ pc' = [pc EXCEPT ![p] = "done"]
    /\ outcome' = [outcome EXCEPT ![p] =
            Returned([success |-> TRUE,
                      order |-> Order(frame[p].df, frame[p].i, call[p].quantity, token)])]
    /\ frame' = [frame EXCEPT ![p] = NoFrame]
    /\ sold' = [sold EXCEPT ![frame[p].i] = @ + call[p].quantity]
    /\ UNCHANGED <<products_csv, tmpfile, call, budget, initial, raced, before>>

\* The client's process dies while it saves, or before it returns.
Crash(p) ==
    /\ pc[p] \in {"save", "replaced"}
    /\ pc' = [pc EXCEPT ![p] = "crashed"]
    /\ UNCHANGED <<products_csv, tmpfile, call, frame, outcome, budget, initial,
                   raced, before, sold>>

\* A read operation: it loads, computes and returns.
Read(p, c, o) ==
    /\ Begin(p, c)
    /\ pc' = [pc EXCEPT ![p] = "done"]
    /\ outcome' = [outcome EXCEPT ![p] = o]
    /\ UNCHANGED <<products_csv, tmpfile, frame, initial, sold>>

\* A search that saves the frame of its matches over the catalog.
SearchSaving(p, product_name) ==
    LET o == SearchProductByNameInternal(products_csv, product_name)
    IN  /\ Begin(p, [op |-> "search", product_name |-> product_name])
        /\ pc' = [pc EXCEPT ![p] = "done"]
        /\ outcome' = [outcome EXCEPT ![p] = o]
        /\ products_csv' =
                IF o.tag = "return" /\ o.value.success
                THEN ToCsv([columns |-> RequiredCols, rows |-> o.value.matches])
                ELSE products_csv
        /\ UNCHANGED <<tmpfile, frame, initial, sold>>

Search(p, product_name) ==
    Read(p, [op |-> "search", product_name |-> product_name],
         SearchProductByNameInternal(products_csv, product_name))

Filter(p, a) ==
    Read(p, [op |-> "filter", args |-> a],
         FilterProductsInternal(products_csv, a.product_type, a.min_rating,
                                a.min_price, a.max_price, a.top_n))

CheckInventory(p, product_id) ==
    Read(p, [op |-> "inventory", product_id |-> product_id],
         CheckInventoryInternal(products_csv, product_id))

\* _load_products_df followed by _save_products_df of the frame as loaded, up
\* to the creation of the temporary file.
Resave(p) ==
    LET ld == LoadProductsDf(products_csv)
    IN  /\ Begin(p, [op |-> "resave"])
        /\ pc' = [pc EXCEPT ![p] = IF ld.raised = "" THEN "save" ELSE "done"]
        /\ frame' = [frame EXCEPT ![p] = [df |-> ld.df, i |-> 0]]
        /\ outcome' = [outcome EXCEPT ![p] =
                IF ld.raised = "" THEN NoOutcome ELSE Raised(ld.raised)]
        /\ tmpfile' = [tmpfile EXCEPT ![p] = IF ld.raised = "" THEN EmptyFile ELSE NoFile]
        /\ UNCHANGED <<products_csv, initial, sold>>

\* _save_products_df returns.
Saved(p) ==
    /\ pc[p] = "replaced"
    /\ call[p].op = "resave"
    /\ pc' = [pc EXCEPT ![p] = "done"]
    /\ outcome' = [outcome EXCEPT ![p] = Returned([success |-> TRUE])]
    /\ frame' = [frame EXCEPT ![p] = NoFrame]
    /\ UNCHANGED <<products_csv, tmpfile, call, budget, initial, raced, before, sold>>

\* What the tool p called answers, from what its internal function returned
\* or raised.
ToolAnswer(p) ==
    CASE call[p].op = "search" -> SearchProductByName(outcome[p])
      [] call[p].op = "filter" -> FilterProducts(outcome[p])
      [] call[p].op = "inventory" -> CheckInventoryTool(outcome[p])
      [] OTHER -> CheckoutProduct(outcome[p])

\* The steps of a checkout that has begun.
Proceed(p) ==
    \/ WriteTmp(p)
    \/ WriteFail(p)
    \/ Replace(p)
    \/ ReplaceFail(p)
    \/ \E token \in Tokens : ReturnOrder(p, token)
    \/ Crash(p)

\* Two clients that call concurrently.
Next ==
    \E p \in Clients :
        \/ \E product_id \in RaceProductIds, quantity \in RaceQuantities :
                Checkout(p, product_id, quantity)
        \/ \E product_name \in RaceKeywords : Search(p, product_name)
        \/ \E a \in RaceFilterArgs : Filter(p, a)
        \/ \E product_id \in RaceProductIds : CheckInventory(p, product_id)
        \/ Proceed(p)

\* One caller, any input.
SeqNext ==
    \E p \in Clients :
        \/ \E product_id \in ProductIds, quantity \in Quantities :
                Checkout(p, product_id, quantity)
        \/ \E product_name \in Keywords : Search(p, product_name)
        \/ \E a \in FilterArgs : Filter(p, a)
        \/ \E product_id \in ProductIds : CheckInventory(p, product_id)
        \/ Proceed(p)

\* One caller, any input, any catalog file.
WideNext ==
    \E p \in Clients :
        \/ \E product_id \in RaceProductIds, quantity \in Quantities :
                Checkout(p, product_id, quantity)
        \/ \E product_name \in Keywords : Search(p, product_name)
        \/ \E a \in WideFilterArgs : Filter(p, a)
        \/ \E product_id \in RaceProductIds : CheckInventory(p, product_id)
        \/ Resave(p)
        \/ Saved(p)
        \/ Proceed(p)

Spec == Init /\ [][Next]_vars

SeqSpec == SeqInit /\ [][SeqNext]_vars

WideSpec == WideInit /\ [][WideNext]_vars

\* ------------------------------------------------------------- properties

\* The rows of a catalog file that product_id denotes: equal ids once trimmed
\* and compared without regard to case.
Denotes(file, product_id) ==
    {k \in 1..Len(file.rows) : Upper(file.rows[k].product_id) = Upper(Strip(product_id))}

\* The inventory_count a fresh load of the file shows for row k.
Count(file, k) == LoadProductsDf(file).df.rows[k].inventory_count

\* The call of p ended by returning the failure dict with this error.
Failed(p, e) ==
    /\ pc[p] = "done"
    /\ outcome[p].tag = "return"
    /\ ~outcome[p].value.success
    /\ outcome[p].value.error = e

\* The call of p was a checkout that returned an order.
Sold(p) ==
    /\ pc[p] = "done"
    /\ call[p].op = "checkout"
    /\ outcome[p].tag = "return"
    /\ outcome[p].value.success

\* Client p begins a call in this step.
Begins(p) == budget'[p] < budget[p]

\* Every inventory_count cell of the file at the catalog path is >= 0.
NonNegativePersisted ==
    products_csv.exists =>
        \A k \in 1..Len(products_csv.rows) : products_csv.rows[k].inventory_count.v >= 0

\* A checkout that asks for more than the catalog holds ends at once with
\* insufficient_inventory, writes nothing and creates no temporary file.
OverdrawRejected ==
    \A p \in Clients :
        (/\ Begins(p)
         /\ call'[p].op = "checkout"
         /\ call'[p].quantity > 0
         /\ products_csv.exists
         /\ Denotes(products_csv, call'[p].product_id) # {}
         /\ call'[p].quantity >
                Count(products_csv, FirstOf(Denotes(products_csv, call'[p].product_id))))
        => /\ pc'[p] = "done"
           /\ outcome'[p].tag = "return"
           /\ ~outcome'[p].value.success
           /\ outcome'[p].value.error = "insufficient_inventory"
           /\ tmpfile'[p] = NoFile
           /\ products_csv' = products_csv

\* C1: from a catalog whose counts are all >= 0, under every interleaving of
\* checkout, search, filter and inventory calls, every persisted
\* inventory_count stays >= 0, and a checkout whose quantity exceeds the
\* available count is rejected, the count left as it was (never clamped).
C1_InventoryNeverNegative == []NonNegativePersisted /\ [][OverdrawRejected]_vars

\* One checkout went through and changed the catalog, another was rejected for
\* asking more than what was left.
C1_Witness ==
    \E p, q \in Clients :
        /\ Sold(p)
        /\ call[q].op = "checkout"
        /\ Failed(q, "insufficient_inventory")
        /\ outcome[q].value.available < call[q].quantity
        /\ products_csv # initial

\* Every call has returned: no client is saving, none has died.
AllReturned == \A p \in Clients : pc[p] \in {"idle", "done"}

\* C2: checkouts are serialized, so no update is lost: once all calls have
\* returned, each product's persisted inventory_count is its initial count
\* minus the quantities of the checkouts on it that returned success.
C2_NoLostUpdate ==
    (AllReturned /\ products_csv.exists) =>
        \A k \in 1..Len(products_csv.rows) :
            Count(products_csv, k) = Count(initial, k) - sold[k]

\* Both clients called checkout(id, quantity) for an id of product P1, and both
\* calls returned.
BothCheckedOutP1(quantity) ==
    \A p \in Clients :
        /\ pc[p] = "done"
        /\ call[p].op = "checkout"
        /\ call[p].quantity = quantity
        /\ Denotes(initial, call[p].product_id) = {1}
        /\ outcome[p].tag = "return"

\* C3: two simultaneous checkout("P1", 5) against inventory_count 7 end, under
\* every interleaving, in exactly one success and one insufficient_inventory,
\* with 2 left; the quantity sold never exceeds the initial stock.
C3_OneOfTwoSucceeds ==
    (initial.exists /\ Count(initial, 1) = 7 /\ BothCheckedOutP1(5)) =>
        /\ Cardinality({p \in Clients : Sold(p)}) = 1
        /\ Cardinality({p \in Clients : Failed(p, "insufficient_inventory")}) = 1
        /\ Count(products_csv, 1) = 2
        /\ sold[1] <= Count(initial, 1)

\* The file holds the whole catalog: the header and every row, each row as
\* it started but for its inventory_count.
Complete(file) ==
    /\ file.exists
    /\ file.columns = initial.columns
    /\ Len(file.rows) = Len(initial.rows)
    /\ \A k \in 1..Len(file.rows) :
            [file.rows[k] EXCEPT !.inventory_count = initial.rows[k].inventory_count]
                = initial.rows[k]

\* What the catalog path names, and what the latest call found there, is the
\* initial file or a whole catalog; so is every frame being saved.
WholeCatalogOnly ==
    /\ products_csv = initial \/ Complete(products_csv)
    /\ before = initial \/ Complete(before)
    /\ \A p \in Clients :
            pc[p] \in {"save", "replaced"} => Complete(ToCsv(frame[p].df))

\* The catalog path changes only by taking, in one step, all of what a
\* checkout saved.
ReplacedWhole ==
    products_csv' # products_csv =>
        \E p \in Clients :
            /\ pc[p] = "save"
            /\ products_csv' = ToCsv(frame[p].df)
            /\ Complete(products_csv')

\* C4: persist writes a temporary file and renames it over the catalog path,
\* so a load at any point of a persist, or after a persist that died at any
\* step, reads the whole catalog as it was before or as it is after, never a
\* partly written one.
C4_ReadersSeeWholeCatalog == []WholeCatalogOnly /\ [][ReplacedWhole]_vars

\* A client died with its temporary file partly written, and an inventory
\* call that began while that file was partly written returned a record.
C4_Witness ==
    /\ raced
    /\ \E p, q \in Clients :
        /\ pc[p] = "crashed"
        /\ PartlyWritten(p)
        /\ tmpfile[p].columns # {}
        /\ pc[q] = "done"
        /\ call[q].op = "inventory"
        /\ outcome[q].tag = "return"
        /\ outcome[q].value.success

\* The row of the catalog, as the latest call found it, that the call of p
\* is about.
RowBefore(p) == FirstOf(Denotes(before, call[p].product_id))

\* C5: after a checkout(id, q) that returns success, with no other checkout
\* running, an inventory lookup for id reports a count exactly q lower than
\* before the call, and a fresh load of the catalog shows the same value; the
\* decrement is durable before checkout returns.
C5_DecrementDurable ==
    \A p \in Clients :
        /\ (Sold(p) \/ pc[p] = "replaced") =>
            LET lookup == CheckInventoryInternal(products_csv, call[p].product_id)
            IN  /\ lookup.tag = "return"
                /\ lookup.value.success
                /\ lookup.value.inventory_count =
                        Count(before, RowBefore(p)) - call[p].quantity
                /\ Count(products_csv, RowBefore(p)) =
                        Count(before, RowBefore(p)) - call[p].quantity
        /\ (/\ pc[p] = "done"
            /\ call[p].op = "inventory"
            /\ outcome[p].tag = "return"
            /\ outcome[p].value.success) =>
                outcome[p].value.inventory_count =
                    Count(initial, RowBefore(p)) - sold[RowBefore(p)]

\* An inventory lookup returned after a checkout of the same product had
\* returned success.
C5_Witness ==
    \E p \in Clients :
        /\ pc[p] = "done"
        /\ call[p].op = "inventory"
        /\ outcome[p].tag = "return"
        /\ outcome[p].value.success
        /\ sold[RowBefore(p)] > 0
        /\ outcome[p].value.inventory_count < Count(initial, RowBefore(p))

\* The call of p was a checkout of a product of the catalog, for a positive
\* quantity larger than the product's inventory_count when the call began.
Overdraw(p) ==
    /\ pc[p] = "done"
    /\ call[p].op = "checkout"
    /\ call[p].quantity > 0
    /\ before.exists
    /\ Denotes(before, call[p].product_id) # {}
    /\ call[p].quantity > Count(before, RowBefore(p))

\* C6: checkout(id, q) for an existing id with q greater than the record's
\* inventory_count returns insufficient_inventory with `available` equal to
\* the inventory_count before the call, and leaves the catalog unchanged: no
\* persist happens.
C6_OverdrawReportsAvailable ==
    \A p \in Clients :
        Overdraw(p) =>
            /\ Failed(p, "insufficient_inventory")
            /\ outcome[p].value.available = Count(before, RowBefore(p))
            /\ products_csv = before
            /\ tmpfile[p] = NoFile

\* A checkout was rejected for asking more than was left after an earlier
\* checkout had taken some of the stock.
C6_Witness ==
    \E p \in Clients :
        /\ Overdraw(p)
        /\ Count(before, RowBefore(p)) > 0
        /\ Count(before, RowBefore(p)) < Count(initial, RowBefore(p))

\* C7: checkout(id, q) with q <= 0 (0 and -1) fails with the invalid-quantity
\* error for every id, and leaves every product's persisted inventory_count
\* unchanged.
C7_InvalidQuantityRejected ==
    \A p \in Clients :
        (pc[p] = "done" /\ call[p].op = "checkout" /\ call[p].quantity <= 0) =>
            /\ Failed(p, "invalid_quantity")
            /\ products_csv = before
            /\ tmpfile[p] = NoFile

\* checkout of a product in stock was called with quantity 0.
C7_Witness ==
    \E p \in Clients :
        /\ pc[p] = "done"
        /\ call[p].op = "checkout"
        /\ call[p].quantity = 0
        /\ before.exists
        /\ Denotes(before, call[p].product_id) # {}
        /\ Count(before, RowBefore(p)) > 0

\* C8: checkout checks quantity > 0, then that the product exists, then
\* stock >= quantity, and reports the first that fails: a non-positive
\* quantity gives invalid_quantity even for an unknown id or a catalog that
\* cannot be loaded, and an unknown id gives not_found with the requested id.
C8_ChecksInOrder ==
    \A p \in Clients :
        (pc[p] = "done" /\ call[p].op = "checkout") =>
            IF call[p].quantity <= 0
            THEN Failed(p, "invalid_quantity")
            ELSE IF ~before.exists
            THEN outcome[p].tag = "raise" /\ outcome[p].exc = "FileNotFoundError"
            ELSE IF Denotes(before, call[p].product_id) = {}
            THEN Failed(p, "not_found") /\ outcome[p].value.product_id = call[p].product_id
            ELSE call[p].quantity > Count(before, RowBefore(p))
                    => Failed(p, "insufficient_inventory")

\* checkout was called with a non-positive quantity while no catalog file
\* existed.
C8_Witness ==
    \E p \in Clients :
        /\ pc[p] = "done"
        /\ call[p].op = "checkout"
        /\ call[p].quantity <= 0
        /\ ~before.exists
        /\ Failed(p, "invalid_quantity")

\* The save of p's checkout raised.
SaveFailed(p) ==
    /\ pc[p] = "done"
    /\ call[p].op = "checkout"
    /\ outcome[p].tag = "raise"
    /\ outcome[p].exc = "OSError"

\* C9: decrement and persist are one unit: if persisting fails at any step
\* (writing the temporary file, or the rename), checkout reports failure,
\* returns no order, and the catalog still holds the pre-call counts.
C9_FailedPersistChangesNothing ==
    \A p \in Clients :
        SaveFailed(p) =>
            /\ products_csv = before
            /\ CheckoutProduct(outcome[p]).text = "Error during checkout"
            /\ ~Sold(p)

\* The save raised after part of the temporary file had been written.
C9_Witness ==
    \E p \in Clients :
        /\ SaveFailed(p)
        /\ tmpfile[p].columns # {}
        /\ Len(tmpfile[p].rows) < Len(before.rows)

\* A search, filter or inventory call that has returned or raised, and a
\* checkout that returned no order, left the catalog as it found it.
ReadsLeaveCatalog ==
    \A p \in Clients :
        (pc[p] = "done" /\ ~Sold(p)) => products_csv = before

\* The file at the catalog path changes only in the replace step of a checkout.
OnlyCheckoutWrites ==
    products_csv' # products_csv =>
        \E p \in Clients :
            /\ call[p].op = "checkout"
            /\ pc[p] = "save"
            /\ pc'[p] = "replaced"

\* C10: search, filter and inventory are pure reads: for every input, and
\* whether they succeed or fail, the catalog is the same before and after the
\* call; a successful checkout is the only operation that changes it.
C10_ReadsArePure == []ReadsLeaveCatalog /\ [][OnlyCheckoutWrites]_vars

\* A search returned matches from a catalog that a checkout had changed.
C10_Witness ==
    \E p \in Clients :
        /\ pc[p] = "done"
        /\ call[p].op = "search"
        /\ outcome[p].tag = "return"
        /\ outcome[p].value.success
        /\ outcome[p].value.count > 0
        /\ products_csv # initial
        /\ products_csv = before

\* The call of p was a filter of a catalog that loads, and it has ended.
Filtered(p) ==
    /\ pc[p] = "done"
    /\ call[p].op = "filter"
    /\ LoadProductsDf(before).raised = ""

\* The numeric predicates of a filter that record r satisfies, each one only
\* if it was supplied.
InRange(r, a) ==
    /\ ~a.min_rating.none => r.rating >= a.min_rating.v
    /\ ~a.min_price.none => r.price >= a.min_price.v
    /\ ~a.max_price.none => r.price <= a.max_price.v

\* Record r satisfies every predicate of a: its type is the supplied type
\* but for letter case.
Satisfies(r, a) ==
    /\ ~a.product_type.none => Lower(r.type) = Lower(a.product_type.v)
    /\ InRange(r, a)

\* Record r satisfies every predicate of a, where a type of None or "" is no
\* predicate and a type is compared once its surrounding blanks are removed.
SatisfiesTrimmed(r, a) ==
    /\ (~a.product_type.none /\ a.product_type.v # <<>>)
            => Lower(r.type) = Lower(Strip(a.product_type.v))
    /\ InRange(r, a)

\* Record r ranks no worse than record t: higher rating, or the same rating
\* and a price no higher.
RanksNoWorse(r, t) ==
    \/ r.rating > t.rating
    \/ r.rating = t.rating /\ r.price <= t.price

\* The result of p's filter lists records of the set wanted only, best first,
\* with count their number, and leaves out no record of wanted that ranks
\* better than one it lists; it lists all of wanted or top_n of them.
ListsBestOf(p, wanted) ==
    /\ outcome[p].tag = "return"
    /\ outcome[p].value.success
    /\ LET recs == outcome[p].value.recommendations
       IN  /\ outcome[p].value.count = Len(recs)
           /\ \A n \in 1..Len(recs) : recs[n] \in wanted
           /\ \A n \in 1..(Len(recs) - 1) : RanksNoWorse(recs[n], recs[n + 1])
           /\ \A n, m \in 1..Len(recs) : n # m => recs[n] # recs[m]
           /\ \A r \in wanted :
                (\A n \in 1..Len(recs) : recs[n] # r) =>
                    \A n \in 1..Len(recs) : RanksNoWorse(recs[n], r)
           /\ Len(recs) = call[p].args.top_n
                \/ \A r \in wanted : \E n \in 1..Len(recs) : recs[n] = r

\* The records of the catalog the latest call found.
RecordsBefore ==
    {LoadProductsDf(before).df.rows[k] : k \in 1..Len(before.rows)}

\* C11 as stated: for every combination of present and absent predicates and
\* every topN, filter returns only records that satisfy all supplied
\* predicates (type equal but for case, rating >= minRating, price within
\* [minPrice, maxPrice]), ordered by rating descending then price ascending,
\* the topN best of them, and its length (= count) is at most topN.
C11_FilterRanksTopN ==
    \A p \in Clients :
        Filtered(p) =>
            /\ ListsBestOf(p, {r \in RecordsBefore : Satisfies(r, call[p].args)})
            /\ outcome[p].value.count <= call[p].args.top_n

\* C11 amended: the same for every topN >= 0, where a product type of "" is
\* no predicate and the type is compared with the argument trimmed.
C11_FilterRanksTopNFromZero ==
    \A p \in Clients :
        (Filtered(p) /\ call[p].args.top_n >= 0) =>
            /\ ListsBestOf(p, {r \in RecordsBefore : SatisfiesTrimmed(r, call[p].args)})
            /\ outcome[p].value.count <= call[p].args.top_n

\* A filter by type with top_n = 2 returned two of the three records of that
\* type, the better-rated one first.
C11_Witness ==
    \E p \in Clients :
        /\ Filtered(p)
        /\ call[p].args.top_n = 2
        /\ ~call[p].args.product_type.none
        /\ call[p].args.product_type.v # <<>>
        /\ outcome[p].tag = "return"
        /\ outcome[p].value.count = 2
        /\ outcome[p].value.recommendations[1].rating
                > outcome[p].value.recommendations[2].rating
        /\ Cardinality({r \in RecordsBefore : SatisfiesTrimmed(r, call[p].args)}) = 3

\* The call of p was an inventory lookup that returned a record.
LookedUp(p) ==
    /\ pc[p] = "done"
    /\ call[p].op = "inventory"
    /\ outcome[p].tag = "return"
    /\ outcome[p].value.success

\* C12: an inventory lookup of an id no record matches returns not_found with
\* the requested id; otherwise it returns the matching record's current
\* persisted inventory_count, with in_stock true exactly when that count is
\* greater than 0.
C12_InventoryLookup ==
    \A p \in Clients :
        (pc[p] = "done" /\ call[p].op = "inventory" /\ before.exists) =>
            IF Denotes(before, call[p].product_id) = {}
            THEN /\ Failed(p, "not_found")
                 /\ outcome[p].value.product_id = call[p].product_id
            ELSE /\ LookedUp(p)
                 /\ 10 * outcome[p].value.inventory_count
                        = products_csv.rows[RowBefore(p)].inventory_count.v
                 /\ outcome[p].value.in_stock = (outcome[p].value.inventory_count > 0)

\* A lookup found a product with nothing left and reported it out of stock.
C12_Witness ==
    \E p \in Clients :
        /\ LookedUp(p)
        /\ outcome[p].value.inventory_count = 0
        /\ ~outcome[p].value.in_stock

\* The call of p loaded the catalog and has replaced the file with the frame
\* as loaded.
Resaved(p) ==
    /\ call[p].op = "resave"
    /\ pc[p] = "replaced" \/ (pc[p] = "done" /\ outcome[p].tag = "return")

\* C13: load then persist, with nothing changed in between, then load again
\* gives a catalog identical to the first load: the same columns, the same
\* records in the same order with the same field values.
C13_RoundTrip ==
    \A p \in Clients :
        Resaved(p) =>
            /\ LoadProductsDf(before).raised = ""
            /\ LoadProductsDf(products_csv) = LoadProductsDf(before)

\* The round trip rewrote a file whose text it changed (an inventory_count
\* of "7.5", an empty description), and the second load equals the first.
C13_Witness ==
    \E p \in Clients :
        /\ Resaved(p)
        /\ pc[p] = "done"
        /\ products_csv # before
        /\ Len(products_csv.rows) = 2

\* The call of p was a search, filter or inventory lookup that returned: its
\* load of the catalog succeeded.
Loaded(p) ==
    /\ pc[p] = "done"
    /\ call[p].op \in {"search", "filter", "inventory"}
    /\ outcome[p].tag = "return"

\* Every inventory_count cell of the file is the text of an integer >= 0.
CountsAreNaturals(file) ==
    \A k \in 1..Len(file.rows) :
        /\ file.rows[k].inventory_count.numeric
        /\ file.rows[k].inventory_count.v >= 0
        /\ file.rows[k].inventory_count.v % 10 = 0

\* C14: load is all-or-nothing and enforces the schema: it fails, or it
\* returns a catalog whose every inventory_count is a non-negative integer; a
\* stored inventory_count that is negative or not an integer never loads.
C14_LoadEnforcesSchema ==
    \A p \in Clients :
        Loaded(p) =>
            /\ \A k \in 1..Len(before.rows) : Count(before, k) >= 0
            /\ CountsAreNaturals(before)

\* Two ids that differ only in letter case or in leading and trailing blanks.
SameId(a, b) == Lower(Strip(a)) = Lower(Strip(b))

\* Two call results that are the same but for the requested id a not_found
\* dict repeats.
SameOutcome(x, y) ==
    /\ x.tag = y.tag
    /\ x.exc = y.exc
    /\ x.value.success = y.value.success
    /\ x.tag = "return" =>
        IF x.value.success THEN x.value = y.value
        ELSE /\ x.value.error = y.value.error
             /\ x.value.error = "insufficient_inventory" =>
                    x.value.available = y.value.available

\* C15: lookup is by normalized id: for any two ids that differ only in case
\* or in leading and trailing whitespace, checkout and inventory lookup
\* resolve to the same record and have the same outcome; after a checkout of
\* 3 of P1's 10, checkout("p1", 8) fails with insufficient_inventory,
\* available 7, and the count stays 7.
C15_LookupByNormalizedId ==
    \A p \in Clients :
        /\ (pc[p] = "done" /\ call[p].op = "inventory") =>
            \A b \in ProductIds :
                SameId(b, call[p].product_id) =>
                    SameOutcome(CheckInventoryInternal(before, b), outcome[p])
        /\ (pc[p] = "done" /\ call[p].op = "checkout") =>
            \A b \in ProductIds :
                SameId(b, call[p].product_id) =>
                    LET r == CheckoutInternal(before, b, call[p].quantity)
                    IN  IF r.pc = "done"
                        THEN SameOutcome(r.outcome, outcome[p])
                        ELSE /\ Sold(p) \/ SaveFailed(p)
                             /\ Sold(p) =>
                                /\ LoadProductsDf(products_csv).df = r.df
                                /\ outcome[p].value.order.product_id
                                        = r.df.rows[r.i].product_id
        /\ (/\ pc[p] = "done"
            /\ call[p].op = "checkout"
            /\ call[p].quantity = 8
            /\ SameId(call[p].product_id, P1)
            /\ before.exists
            /\ Count(before, 1) = 7) =>
                /\ Failed(p, "insufficient_inventory")
                /\ outcome[p].value.available = 7
                /\ Count(products_csv, 1) = 7

\* Of P1's 10 units 3 were sold, and then checkout(" p1 ", 8) was refused
\* with 7 available.
C15_Witness ==
    \E p \in Clients :
        /\ initial.exists
        /\ Count(initial, 1) = 10
        /\ sold[1] = 3
        /\ call[p] = [op |-> "checkout", product_id |-> <<" ", "p", "1", " ">>,
                      quantity |-> 8]
        /\ Failed(p, "insufficient_inventory")
        /\ outcome[p].value.available = 7
        /\ Count(products_csv, 1) = 7

\* q occurs in s as it is written, character for character.
HasSubstring(s, q) ==
    \E start \in 1..(Len(s) - Len(q) + 1) : SubSeq(s, start, start + Len(q) - 1) = q

\* The records of the catalog the latest call found whose name or description
\* holds the keyword, letter case aside.
Holding(keyword) ==
    {r \in RecordsBefore :
        \/ HasSubstring(Lower(r.product_name), Lower(keyword))
        \/ HasSubstring(Lower(r.product_description), Lower(keyword))}

\* C16: for a keyword that is not empty once trimmed, search returns success
\* with exactly the records whose name or description contains the keyword
\* as a case-insensitive literal substring; for an empty or blank keyword it
\* returns a failure result and no list of matches.
C16_SearchLiteralSubstring ==
    \A p \in Clients :
        (/\ pc[p] = "done"
         /\ call[p].op = "search"
         /\ LoadProductsDf(before).raised = "") =>
            /\ outcome[p].tag = "return"
            /\ IF Strip(call[p].product_name) = <<>>
               THEN ~outcome[p].value.success
               ELSE /\ outcome[p].value.success
                    /\ {outcome[p].value.matches[n] :
                            n \in 1..Len(outcome[p].value.matches)}
                         = Holding(Strip(call[p].product_name))
                    /\ outcome[p].value.count = Cardinality(Holding(Strip(call[p].product_name)))

\* The call of p was a call of one of the four tools, and it has ended.
Answered(p) ==
    /\ pc[p] = "done"
    /\ call[p].op \in {"search", "filter", "inventory", "checkout"}

\* The texts a tool answers with when its internal function raised.
ErrorTexts ==
    {"Product database not found", "Error searching product",
     "Error filtering products", "Error checking inventory", "Error during checkout"}

\* The texts a tool answers with when its internal function returned a failure
\* dict.
FailureTexts ==
    {"Error", "Product not found", "Checkout failed",
     "Checkout failed: only units available", "Checkout failed: product not found"}

\* The texts a tool answers with when its internal function returned success.
SuccessTexts ==
    {"No products found", "Products found", "No products match the given filters",
     "Top recommendations", "in stock", "out of stock", "Checkout successful"}

C18_OrderIdsUnique ==
    \A p, q \in Clients :
        (p # q /\ Sold(p) /\ Sold(q)) =>
            outcome[p].value.order.order_id # outcome[q].value.order.order_id

\* The record, as the latest call loaded it, that the call of p resolved to.
RecordBefore(p) == LoadProductsDf(before).df.rows[RowBefore(p)]

\* C19: the order of a successful checkout(id, q) has qty = q, the product_id
\* and product_name of the resolved record, unit_price equal to the record's
\* price, and total_price = unit_price * q rounded to two decimals
\* (100.00 * 3 = 300.00).
C19_OrderFields ==
    \A p \in Clients :
        Sold(p) =>
            LET order == outcome[p].value.order
                exact == RecordBefore(p).price * call[p].quantity
            IN  /\ order.qty = call[p].quantity
                /\ order.product_id = RecordBefore(p).product_id
                /\ order.product_name = RecordBefore(p).product_name
                /\ order.unit_price = RecordBefore(p).price
                /\ 10 * order.total_price - exact <= 5
                /\ exact - 10 * order.total_price <= 5
                /\ (order.unit_price = 100000 /\ order.qty = 3)
                        => order.total_price = 30000

\* Three units at 100.00 were sold for 300.00.
C19_Witness ==
    \E p \in Clients :
        /\ Sold(p)
        /\ outcome[p].value.order.qty = 3
        /\ outcome[p].value.order.unit_price = 100000
        /\ outcome[p].value.order.total_price = 30000

\* The checkout of p has replaced the catalog file.
CheckedOut(p) ==
    /\ call[p].op = "checkout"
    /\ Sold(p) \/ pc[p] = "replaced"

\* C20: a successful checkout(id, q) changes exactly one field of exactly one
\* record: the inventory_count of the first record whose normalized id
\* matches.  Every other record, every other field of that record, and the
\* order of the records in the persisted catalog are as before, also when
\* several records share the normalized id.
C20_OneFieldOfOneRecord ==
    \A p \in Clients :
        CheckedOut(p) =>
            LET old == LoadProductsDf(before).df
                new == LoadProductsDf(products_csv)
                matching == Denotes(before, call[p].product_id)
                first == CHOOSE k \in matching : \A j \in matching : k <= j
            IN  /\ new.raised = ""
                /\ new.df.columns = old.columns
                /\ Len(new.df.rows) = Len(old.rows)
                /\ \A k \in 1..Len(old.rows) :
                        new.df.rows[k] =
                            IF k = first
                            THEN [old.rows[k] EXCEPT
                                    !.inventory_count = @ - call[p].quantity]
                            ELSE old.rows[k]

\* A checkout returned an order for an id that two records of the catalog
\* share once normalized.
C20_Witness ==
    \E p \in Clients :
        /\ Sold(p)
        /\ Cardinality(Denotes(before, call[p].product_id)) = 2
        /\ products_csv # before

\* A step that changes the file at the catalog path leaves every product's
\* inventory_count, as a load reads it, no higher than it was.
NoCountRises ==
    (products_csv.exists /\ products_csv' # products_csv) =>
        /\ LoadProductsDf(products_csv').raised = ""
        /\ \A k \in 1..Len(products_csv.rows) :
                Count(products_csv', k) <= Count(products_csv, k)

\* C21: the persisted inventory_count of every product never increases:
\* across any sequence and any interleaving of operations, each durable state
\* of the catalog has, for every product, an inventory_count no greater than
\* in the durable state before it; no operation restocks and no persist
\* rolls back an earlier decrement.
C21_InventoryNeverIncreases == [][NoCountRises]_vars

====
